---------------------------- MODULE Spec2Model ----------------------------
(***************************************************************************)
(* A model of the math forwarding layer of swift-numerics: the two real    *)
(* shim headers (NumericsShims.h with the swift_ functions, and            *)
(* _NumericsShims.h with the libm_ functions and the mul-add inlines) and  *)
(* the complex shim header (_CComplex/include/shim.h).                     *)
(*                                                                         *)
(* The headers are tables of one-line forwarding functions, selected by    *)
(* the preprocessor for a build target.  The model keeps every function    *)
(* as one row that records what the source text says: the guard it sits    *)
(* under, its parameters, the routine it calls, the arguments it passes    *)
(* and whether a declaration of that routine is in scope.  A call runs in  *)
(* three steps (enter the shim, run the platform routine, return to the    *)
(* caller) so that calls of several threads can interleave.                *)
(*                                                                         *)
(* The platform math library is not part of the repository.  It is         *)
(* modelled as a term algebra: the value of routine f on arguments xs is   *)
(* the term f(xs), different for different routines, precisions, argument  *)
(* values and argument orders, except at the points where C Annex F and G  *)
(* fix a special result (a NaN, an infinity, a zero).                      *)
(***************************************************************************)
EXTENDS Integers, Sequences, FiniteSets, TLC

VARIABLES
  target,      \* the build target the headers were compiled for
  pc,          \* per thread: where its current call stands
  frame,       \* per thread: the activation of the shim it is in
  result,      \* per thread: what the caller holds after the last return
  callerSign,  \* per thread: the caller's int that signp points to
  errno        \* per thread: the platform's thread-local error signal

vars == <<target, pc, frame, result, callerSign, errno>>

---------------------------------------------------------------------------
(* Build targets and the preprocessor *)

OSFamilies == {"Apple", "Linux", "Windows"}

Architectures == {"i386", "x86_64", "other"}

Targets == [os : OSFamilies, arch : Architectures]

\* Defined with __APPLE__ predefined on every target.
DefinedAppleEverywhere(macro, tgt) ==
  CASE macro = "__APPLE__"  -> TRUE
    [] macro = "_WIN32"     -> tgt.os = "Windows"
    [] macro = "__i386__"   -> tgt.arch = "i386"
    [] macro = "__x86_64__" -> tgt.arch = "x86_64"
    [] OTHER                -> FALSE

\* The predefined macros the headers test.
Defined(macro, tgt) ==
  CASE macro = "__APPLE__"  -> tgt.os = "Apple"
    [] macro = "_WIN32"     -> tgt.os = "Windows"
    [] macro = "__i386__"   -> tgt.arch = "i386"
    [] macro = "__x86_64__" -> tgt.arch = "x86_64"
    [] OTHER                -> FALSE

\* The condition that opens the float80 section of both real headers.
X87 == "!defined _WIN32 && (defined __i386__ || defined __x86_64__)"

\* Holds with the float80 condition missing its Windows test.
HoldsIgnoringWindows(cond, tgt) ==
  CASE cond = "__APPLE__"          -> Defined("__APPLE__", tgt)
    [] cond = "defined(_WIN32)"    -> Defined("_WIN32", tgt)
    [] cond = "!(defined(_WIN32))" -> ~Defined("_WIN32", tgt)
    [] cond = "!defined _WIN32"    -> ~Defined("_WIN32", tgt)
    [] cond = X87                  -> Defined("__i386__", tgt) \/ Defined("__x86_64__", tgt)
    [] OTHER                       -> FALSE

\* The value of one #if condition on a target; "!(c)" is the #else of "#if c".
Holds(cond, tgt) ==
  CASE cond = "__APPLE__"          -> Defined("__APPLE__", tgt)
    [] cond = "defined(_WIN32)"    -> Defined("_WIN32", tgt)
    [] cond = "!(defined(_WIN32))" -> ~Defined("_WIN32", tgt)
    [] cond = "!defined _WIN32"    -> ~Defined("_WIN32", tgt)
    [] cond = X87                  -> /\ ~Defined("_WIN32", tgt)
                                      /\ (Defined("__i386__", tgt) \/ Defined("__x86_64__", tgt))
    [] OTHER                       -> FALSE

\* A sequence of nested conditions holds when each of them does.
AllHold(conds, tgt) == \A i \in 1..Len(conds) : Holds(conds[i], tgt)

---------------------------------------------------------------------------
(* The real shims, one row per function body *)

\* hdr: the header; name: the function; op: its name without prefix and
\* precision suffix; prec: its C type; guard: the #if conditions around the
\* body; params: its parameters in order; via: "builtin" for __builtin_f,
\* "extern" for a routine called by name; callee: the routine; args: the
\* arguments of the call in order; decl: the #if conditions around the extern
\* declaration inside the body, when they differ from the body's own.
Shim(hdr, name, op, prec, guard, params, via, callee, args, decl) ==
  [hdr |-> hdr, name |-> name, op |-> op, prec |-> prec, guard |-> guard,
   params |-> params, via |-> via, callee |-> callee, args |-> args,
   decl |-> decl]

SwiftFloatShims ==
  { Shim("NumericsShims.h", "swift_cosf", "cos", "float", <<>>, <<"x">>, "builtin", "__builtin_cosf", <<"x">>, <<>>),
    Shim("NumericsShims.h", "swift_sinf", "sin", "float", <<>>, <<"x">>, "builtin", "__builtin_sinf", <<"x">>, <<>>),
    Shim("NumericsShims.h", "swift_tanf", "tan", "float", <<>>, <<"x">>, "builtin", "__builtin_tanf", <<"x">>, <<>>),
    Shim("NumericsShims.h", "swift_acosf", "acos", "float", <<>>, <<"x">>, "builtin", "__builtin_acosf", <<"x">>, <<>>),
    Shim("NumericsShims.h", "swift_asinf", "asin", "float", <<>>, <<"x">>, "builtin", "__builtin_asinf", <<"x">>, <<>>),
    Shim("NumericsShims.h", "swift_atanf", "atan", "float", <<>>, <<"x">>, "builtin", "__builtin_atanf", <<"x">>, <<>>),
    Shim("NumericsShims.h", "swift_coshf", "cosh", "float", <<>>, <<"x">>, "builtin", "__builtin_coshf", <<"x">>, <<>>),
    Shim("NumericsShims.h", "swift_sinhf", "sinh", "float", <<>>, <<"x">>, "builtin", "__builtin_sinhf", <<"x">>, <<>>),
    Shim("NumericsShims.h", "swift_tanhf", "tanh", "float", <<>>, <<"x">>, "builtin", "__builtin_tanhf", <<"x">>, <<>>),
    Shim("NumericsShims.h", "swift_acoshf", "acosh", "float", <<>>, <<"x">>, "builtin", "__builtin_acoshf", <<"x">>, <<>>),
    Shim("NumericsShims.h", "swift_asinhf", "asinh", "float", <<>>, <<"x">>, "builtin", "__builtin_asinhf", <<"x">>, <<>>),
    Shim("NumericsShims.h", "swift_atanhf", "atanh", "float", <<>>, <<"x">>, "builtin", "__builtin_atanhf", <<"x">>, <<>>),
    Shim("NumericsShims.h", "swift_expf", "exp", "float", <<>>, <<"x">>, "builtin", "__builtin_expf", <<"x">>, <<>>),
    Shim("NumericsShims.h", "swift_expm1f", "expm1", "float", <<>>, <<"x">>, "builtin", "__builtin_expm1f", <<"x">>, <<>>),
    Shim("NumericsShims.h", "swift_logf", "log", "float", <<>>, <<"x">>, "builtin", "__builtin_logf", <<"x">>, <<>>),
    Shim("NumericsShims.h", "swift_log1pf", "log1p", "float", <<>>, <<"x">>, "builtin", "__builtin_log1pf", <<"x">>, <<>>),
    Shim("NumericsShims.h", "swift_powf", "pow", "float", <<>>, <<"x", "y">>, "builtin", "__builtin_powf", <<"x", "y">>, <<>>),
    Shim("NumericsShims.h", "swift_atan2f", "atan2", "float", <<>>, <<"y", "x">>, "builtin", "__builtin_atan2f", <<"y", "x">>, <<>>),
    Shim("NumericsShims.h", "swift_erff", "erf", "float", <<>>, <<"x">>, "builtin", "__builtin_erff", <<"x">>, <<>>),
    Shim("NumericsShims.h", "swift_erfcf", "erfc", "float", <<>>, <<"x">>, "builtin", "__builtin_erfcf", <<"x">>, <<>>),
    Shim("NumericsShims.h", "swift_exp2f", "exp2", "float", <<>>, <<"x">>, "builtin", "__builtin_exp2f", <<"x">>, <<>>),
    Shim("NumericsShims.h", "swift_hypotf", "hypot", "float", <<"defined(_WIN32)">>, <<"x", "y">>, "extern", "_hypotf", <<"x", "y">>, <<>>),
    Shim("NumericsShims.h", "swift_hypotf", "hypot", "float", <<"!(defined(_WIN32))">>, <<"x", "y">>, "builtin", "__builtin_hypotf", <<"x", "y">>, <<>>),
    Shim("NumericsShims.h", "swift_gammaf", "gamma", "float", <<>>, <<"x">>, "builtin", "__builtin_tgammaf", <<"x">>, <<>>),
    Shim("NumericsShims.h", "swift_log2f", "log2", "float", <<>>, <<"x">>, "builtin", "__builtin_log2f", <<"x">>, <<>>),
    Shim("NumericsShims.h", "swift_log10f", "log10", "float", <<>>, <<"x">>, "builtin", "__builtin_log10f", <<"x">>, <<>>),
    Shim("NumericsShims.h", "swift_lgammaf", "lgamma", "float", <<"!defined _WIN32">>, <<"x">>, "extern", "lgammaf_r", <<"x", "&_">>, <<"__APPLE__">>) }

SwiftDoubleShims ==
  { Shim("NumericsShims.h", "swift_cos", "cos", "double", <<>>, <<"x">>, "builtin", "__builtin_cos", <<"x">>, <<>>),
    Shim("NumericsShims.h", "swift_sin", "sin", "double", <<>>, <<"x">>, "builtin", "__builtin_sin", <<"x">>, <<>>),
    Shim("NumericsShims.h", "swift_tan", "tan", "double", <<>>, <<"x">>, "builtin", "__builtin_tan", <<"x">>, <<>>),
    Shim("NumericsShims.h", "swift_acos", "acos", "double", <<>>, <<"x">>, "builtin", "__builtin_acos", <<"x">>, <<>>),
    Shim("NumericsShims.h", "swift_asin", "asin", "double", <<>>, <<"x">>, "builtin", "__builtin_asin", <<"x">>, <<>>),
    Shim("NumericsShims.h", "swift_atan", "atan", "double", <<>>, <<"x">>, "builtin", "__builtin_atan", <<"x">>, <<>>),
    Shim("NumericsShims.h", "swift_cosh", "cosh", "double", <<>>, <<"x">>, "builtin", "__builtin_cosh", <<"x">>, <<>>),
    Shim("NumericsShims.h", "swift_sinh", "sinh", "double", <<>>, <<"x">>, "builtin", "__builtin_sinh", <<"x">>, <<>>),
    Shim("NumericsShims.h", "swift_tanh", "tanh", "double", <<>>, <<"x">>, "builtin", "__builtin_tanh", <<"x">>, <<>>),
    Shim("NumericsShims.h", "swift_acosh", "acosh", "double", <<>>, <<"x">>, "builtin", "__builtin_acosh", <<"x">>, <<>>),
    Shim("NumericsShims.h", "swift_asinh", "asinh", "double", <<>>, <<"x">>, "builtin", "__builtin_asinh", <<"x">>, <<>>),
    Shim("NumericsShims.h", "swift_atanh", "atanh", "double", <<>>, <<"x">>, "builtin", "__builtin_atanh", <<"x">>, <<>>),
    Shim("NumericsShims.h", "swift_exp", "exp", "double", <<>>, <<"x">>, "builtin", "__builtin_exp", <<"x">>, <<>>),
    Shim("NumericsShims.h", "swift_expm1", "expm1", "double", <<>>, <<"x">>, "builtin", "__builtin_expm1", <<"x">>, <<>>),
    Shim("NumericsShims.h", "swift_log", "log", "double", <<>>, <<"x">>, "builtin", "__builtin_log", <<"x">>, <<>>),
    Shim("NumericsShims.h", "swift_log1p", "log1p", "double", <<>>, <<"x">>, "builtin", "__builtin_log1p", <<"x">>, <<>>),
    Shim("NumericsShims.h", "swift_pow", "pow", "double", <<>>, <<"x", "y">>, "builtin", "__builtin_pow", <<"x", "y">>, <<>>),
    Shim("NumericsShims.h", "swift_atan2", "atan2", "double", <<>>, <<"y", "x">>, "builtin", "__builtin_atan2", <<"y", "x">>, <<>>),
    Shim("NumericsShims.h", "swift_erf", "erf", "double", <<>>, <<"x">>, "builtin", "__builtin_erf", <<"x">>, <<>>),
    Shim("NumericsShims.h", "swift_erfc", "erfc", "double", <<>>, <<"x">>, "builtin", "__builtin_erfc", <<"x">>, <<>>),
    Shim("NumericsShims.h", "swift_exp2", "exp2", "double", <<>>, <<"x">>, "builtin", "__builtin_exp2", <<"x">>, <<>>),
    Shim("NumericsShims.h", "swift_hypot", "hypot", "double", <<>>, <<"x", "y">>, "builtin", "__builtin_hypot", <<"x", "y">>, <<>>),
    Shim("NumericsShims.h", "swift_gamma", "gamma", "double", <<>>, <<"x">>, "builtin", "__builtin_tgamma", <<"x">>, <<>>),
    Shim("NumericsShims.h", "swift_log2", "log2", "double", <<>>, <<"x">>, "builtin", "__builtin_log2", <<"x">>, <<>>),
    Shim("NumericsShims.h", "swift_log10", "log10", "double", <<>>, <<"x">>, "builtin", "__builtin_log10", <<"x">>, <<>>),
    Shim("NumericsShims.h", "swift_lgamma", "lgamma", "double", <<"!defined _WIN32">>, <<"x">>, "extern", "lgamma_r", <<"x", "&_">>, <<"__APPLE__">>) }

SwiftLongDoubleShims ==
  { Shim("NumericsShims.h", "swift_cosl", "cos", "long double", <<X87>>, <<"x">>, "builtin", "__builtin_cosl", <<"x">>, <<>>),
    Shim("NumericsShims.h", "swift_sinl", "sin", "long double", <<X87>>, <<"x">>, "builtin", "__builtin_sinl", <<"x">>, <<>>),
    Shim("NumericsShims.h", "swift_tanl", "tan", "long double", <<X87>>, <<"x">>, "builtin", "__builtin_tanl", <<"x">>, <<>>),
    Shim("NumericsShims.h", "swift_acosl", "acos", "long double", <<X87>>, <<"x">>, "builtin", "__builtin_acosl", <<"x">>, <<>>),
    Shim("NumericsShims.h", "swift_asinl", "asin", "long double", <<X87>>, <<"x">>, "builtin", "__builtin_asinl", <<"x">>, <<>>),
    Shim("NumericsShims.h", "swift_atanl", "atan", "long double", <<X87>>, <<"x">>, "builtin", "__builtin_atanl", <<"x">>, <<>>),
    Shim("NumericsShims.h", "swift_coshl", "cosh", "long double", <<X87>>, <<"x">>, "builtin", "__builtin_coshl", <<"x">>, <<>>),
    Shim("NumericsShims.h", "swift_sinhl", "sinh", "long double", <<X87>>, <<"x">>, "builtin", "__builtin_sinhl", <<"x">>, <<>>),
    Shim("NumericsShims.h", "swift_tanhl", "tanh", "long double", <<X87>>, <<"x">>, "builtin", "__builtin_tanhl", <<"x">>, <<>>),
    Shim("NumericsShims.h", "swift_acoshl", "acosh", "long double", <<X87>>, <<"x">>, "builtin", "__builtin_acoshl", <<"x">>, <<>>),
    Shim("NumericsShims.h", "swift_asinhl", "asinh", "long double", <<X87>>, <<"x">>, "builtin", "__builtin_asinhl", <<"x">>, <<>>),
    Shim("NumericsShims.h", "swift_atanhl", "atanh", "long double", <<X87>>, <<"x">>, "builtin", "__builtin_atanhl", <<"x">>, <<>>),
    Shim("NumericsShims.h", "swift_expl", "exp", "long double", <<X87>>, <<"x">>, "builtin", "__builtin_expl", <<"x">>, <<>>),
    Shim("NumericsShims.h", "swift_expm1l", "expm1", "long double", <<X87>>, <<"x">>, "builtin", "__builtin_expm1l", <<"x">>, <<>>),
    Shim("NumericsShims.h", "swift_logl", "log", "long double", <<X87>>, <<"x">>, "builtin", "__builtin_logl", <<"x">>, <<>>),
    Shim("NumericsShims.h", "swift_log1pl", "log1p", "long double", <<X87>>, <<"x">>, "builtin", "__builtin_log1pl", <<"x">>, <<>>),
    Shim("NumericsShims.h", "swift_powl", "pow", "long double", <<X87>>, <<"x", "y">>, "builtin", "__builtin_powl", <<"x", "y">>, <<>>),
    Shim("NumericsShims.h", "swift_atan2l", "atan2", "long double", <<X87>>, <<"y", "x">>, "builtin", "__builtin_atan2l", <<"y", "x">>, <<>>),
    Shim("NumericsShims.h", "swift_erfl", "erf", "long double", <<X87>>, <<"x">>, "builtin", "__builtin_erfl", <<"x">>, <<>>),
    Shim("NumericsShims.h", "swift_erfcl", "erfc", "long double", <<X87>>, <<"x">>, "builtin", "__builtin_erfcl", <<"x">>, <<>>),
    Shim("NumericsShims.h", "swift_exp2l", "exp2", "long double", <<X87>>, <<"x">>, "builtin", "__builtin_exp2l", <<"x">>, <<>>),
    Shim("NumericsShims.h", "swift_hypotl", "hypot", "long double", <<X87>>, <<"x", "y">>, "builtin", "__builtin_hypotl", <<"x", "y">>, <<>>),
    Shim("NumericsShims.h", "swift_gammal", "gamma", "long double", <<X87>>, <<"x">>, "builtin", "__builtin_tgammal", <<"x">>, <<>>),
    Shim("NumericsShims.h", "swift_log2l", "log2", "long double", <<X87>>, <<"x">>, "builtin", "__builtin_log2l", <<"x">>, <<>>),
    Shim("NumericsShims.h", "swift_log10l", "log10", "long double", <<X87>>, <<"x">>, "builtin", "__builtin_log10l", <<"x">>, <<>>),
    Shim("NumericsShims.h", "swift_lgammal", "lgamma", "long double", <<X87>>, <<"x">>, "extern", "lgammal_r", <<"x", "&_">>, <<>>) }

LibmFloatShims ==
  { Shim("_NumericsShims.h", "libm_cosf", "cos", "float", <<>>, <<"x">>, "builtin", "__builtin_cosf", <<"x">>, <<>>),
    Shim("_NumericsShims.h", "libm_sinf", "sin", "float", <<>>, <<"x">>, "builtin", "__builtin_sinf", <<"x">>, <<>>),
    Shim("_NumericsShims.h", "libm_tanf", "tan", "float", <<>>, <<"x">>, "builtin", "__builtin_tanf", <<"x">>, <<>>),
    Shim("_NumericsShims.h", "libm_acosf", "acos", "float", <<>>, <<"x">>, "builtin", "__builtin_acosf", <<"x">>, <<>>),
    Shim("_NumericsShims.h", "libm_asinf", "asin", "float", <<>>, <<"x">>, "builtin", "__builtin_asinf", <<"x">>, <<>>),
    Shim("_NumericsShims.h", "libm_atanf", "atan", "float", <<>>, <<"x">>, "builtin", "__builtin_atanf", <<"x">>, <<>>),
    Shim("_NumericsShims.h", "libm_coshf", "cosh", "float", <<>>, <<"x">>, "builtin", "__builtin_coshf", <<"x">>, <<>>),
    Shim("_NumericsShims.h", "libm_sinhf", "sinh", "float", <<>>, <<"x">>, "builtin", "__builtin_sinhf", <<"x">>, <<>>),
    Shim("_NumericsShims.h", "libm_tanhf", "tanh", "float", <<>>, <<"x">>, "builtin", "__builtin_tanhf", <<"x">>, <<>>),
    Shim("_NumericsShims.h", "libm_acoshf", "acosh", "float", <<>>, <<"x">>, "builtin", "__builtin_acoshf", <<"x">>, <<>>),
    Shim("_NumericsShims.h", "libm_asinhf", "asinh", "float", <<>>, <<"x">>, "builtin", "__builtin_asinhf", <<"x">>, <<>>),
    Shim("_NumericsShims.h", "libm_atanhf", "atanh", "float", <<>>, <<"x">>, "builtin", "__builtin_atanhf", <<"x">>, <<>>),
    Shim("_NumericsShims.h", "libm_expf", "exp", "float", <<>>, <<"x">>, "builtin", "__builtin_expf", <<"x">>, <<>>),
    Shim("_NumericsShims.h", "libm_expm1f", "expm1", "float", <<>>, <<"x">>, "builtin", "__builtin_expm1f", <<"x">>, <<>>),
    Shim("_NumericsShims.h", "libm_logf", "log", "float", <<>>, <<"x">>, "builtin", "__builtin_logf", <<"x">>, <<>>),
    Shim("_NumericsShims.h", "libm_log1pf", "log1p", "float", <<>>, <<"x">>, "builtin", "__builtin_log1pf", <<"x">>, <<>>),
    Shim("_NumericsShims.h", "libm_powf", "pow", "float", <<>>, <<"x", "y">>, "builtin", "__builtin_powf", <<"x", "y">>, <<>>),
    Shim("_NumericsShims.h", "libm_cbrtf", "cbrt", "float", <<>>, <<"x">>, "builtin", "__builtin_cbrtf", <<"x">>, <<>>),
    Shim("_NumericsShims.h", "libm_atan2f", "atan2", "float", <<>>, <<"y", "x">>, "builtin", "__builtin_atan2f", <<"y", "x">>, <<>>),
    Shim("_NumericsShims.h", "libm_erff", "erf", "float", <<>>, <<"x">>, "builtin", "__builtin_erff", <<"x">>, <<>>),
    Shim("_NumericsShims.h", "libm_erfcf", "erfc", "float", <<>>, <<"x">>, "builtin", "__builtin_erfcf", <<"x">>, <<>>),
    Shim("_NumericsShims.h", "libm_exp2f", "exp2", "float", <<>>, <<"x">>, "builtin", "__builtin_exp2f", <<"x">>, <<>>),
    Shim("_NumericsShims.h", "libm_exp10f", "exp10", "float", <<"__APPLE__">>, <<"x">>, "extern", "__exp10f", <<"x">>, <<>>),
    Shim("_NumericsShims.h", "libm_hypotf", "hypot", "float", <<"defined(_WIN32)">>, <<"x", "y">>, "extern", "_hypotf", <<"x", "y">>, <<>>),
    Shim("_NumericsShims.h", "libm_hypotf", "hypot", "float", <<"!(defined(_WIN32))">>, <<"x", "y">>, "builtin", "__builtin_hypotf", <<"x", "y">>, <<>>),
    Shim("_NumericsShims.h", "libm_tgammaf", "tgamma", "float", <<>>, <<"x">>, "builtin", "__builtin_tgammaf", <<"x">>, <<>>),
    Shim("_NumericsShims.h", "libm_log2f", "log2", "float", <<>>, <<"x">>, "builtin", "__builtin_log2f", <<"x">>, <<>>),
    Shim("_NumericsShims.h", "libm_log10f", "log10", "float", <<>>, <<"x">>, "builtin", "__builtin_log10f", <<"x">>, <<>>),
    Shim("_NumericsShims.h", "libm_lgammaf", "lgamma", "float", <<"!defined _WIN32">>, <<"x", "signp">>, "extern", "lgammaf_r", <<"x", "signp">>, <<>>) }

LibmDoubleShims ==
  { Shim("_NumericsShims.h", "libm_cos", "cos", "double", <<>>, <<"x">>, "builtin", "__builtin_cos", <<"x">>, <<>>),
    Shim("_NumericsShims.h", "libm_sin", "sin", "double", <<>>, <<"x">>, "builtin", "__builtin_sin", <<"x">>, <<>>),
    Shim("_NumericsShims.h", "libm_tan", "tan", "double", <<>>, <<"x">>, "builtin", "__builtin_tan", <<"x">>, <<>>),
    Shim("_NumericsShims.h", "libm_acos", "acos", "double", <<>>, <<"x">>, "builtin", "__builtin_acos", <<"x">>, <<>>),
    Shim("_NumericsShims.h", "libm_asin", "asin", "double", <<>>, <<"x">>, "builtin", "__builtin_asin", <<"x">>, <<>>),
    Shim("_NumericsShims.h", "libm_atan", "atan", "double", <<>>, <<"x">>, "builtin", "__builtin_atan", <<"x">>, <<>>),
    Shim("_NumericsShims.h", "libm_cosh", "cosh", "double", <<>>, <<"x">>, "builtin", "__builtin_cosh", <<"x">>, <<>>),
    Shim("_NumericsShims.h", "libm_sinh", "sinh", "double", <<>>, <<"x">>, "builtin", "__builtin_sinh", <<"x">>, <<>>),
    Shim("_NumericsShims.h", "libm_tanh", "tanh", "double", <<>>, <<"x">>, "builtin", "__builtin_tanh", <<"x">>, <<>>),
    Shim("_NumericsShims.h", "libm_acosh", "acosh", "double", <<>>, <<"x">>, "builtin", "__builtin_acosh", <<"x">>, <<>>),
    Shim("_NumericsShims.h", "libm_asinh", "asinh", "double", <<>>, <<"x">>, "builtin", "__builtin_asinh", <<"x">>, <<>>),
    Shim("_NumericsShims.h", "libm_atanh", "atanh", "double", <<>>, <<"x">>, "builtin", "__builtin_atanh", <<"x">>, <<>>),
    Shim("_NumericsShims.h", "libm_exp", "exp", "double", <<>>, <<"x">>, "builtin", "__builtin_exp", <<"x">>, <<>>),
    Shim("_NumericsShims.h", "libm_expm1", "expm1", "double", <<>>, <<"x">>, "builtin", "__builtin_expm1", <<"x">>, <<>>),
    Shim("_NumericsShims.h", "libm_log", "log", "double", <<>>, <<"x">>, "builtin", "__builtin_log", <<"x">>, <<>>),
    Shim("_NumericsShims.h", "libm_log1p", "log1p", "double", <<>>, <<"x">>, "builtin", "__builtin_log1p", <<"x">>, <<>>),
    Shim("_NumericsShims.h", "libm_pow", "pow", "double", <<>>, <<"x", "y">>, "builtin", "__builtin_pow", <<"x", "y">>, <<>>),
    Shim("_NumericsShims.h", "libm_cbrt", "cbrt", "double", <<>>, <<"x">>, "builtin", "__builtin_cbrt", <<"x">>, <<>>),
    Shim("_NumericsShims.h", "libm_atan2", "atan2", "double", <<>>, <<"y", "x">>, "builtin", "__builtin_atan2", <<"y", "x">>, <<>>),
    Shim("_NumericsShims.h", "libm_erf", "erf", "double", <<>>, <<"x">>, "builtin", "__builtin_erf", <<"x">>, <<>>),
    Shim("_NumericsShims.h", "libm_erfc", "erfc", "double", <<>>, <<"x">>, "builtin", "__builtin_erfc", <<"x">>, <<>>),
    Shim("_NumericsShims.h", "libm_exp2", "exp2", "double", <<>>, <<"x">>, "builtin", "__builtin_exp2", <<"x">>, <<>>),
    Shim("_NumericsShims.h", "libm_exp10", "exp10", "double", <<"__APPLE__">>, <<"x">>, "extern", "__exp10", <<"x">>, <<>>),
    Shim("_NumericsShims.h", "libm_hypot", "hypot", "double", <<>>, <<"x", "y">>, "builtin", "__builtin_hypot", <<"x", "y">>, <<>>),
    Shim("_NumericsShims.h", "libm_tgamma", "tgamma", "double", <<>>, <<"x">>, "builtin", "__builtin_tgamma", <<"x">>, <<>>),
    Shim("_NumericsShims.h", "libm_log2", "log2", "double", <<>>, <<"x">>, "builtin", "__builtin_log2", <<"x">>, <<>>),
    Shim("_NumericsShims.h", "libm_log10", "log10", "double", <<>>, <<"x">>, "builtin", "__builtin_log10", <<"x">>, <<>>),
    Shim("_NumericsShims.h", "libm_lgamma", "lgamma", "double", <<"!defined _WIN32">>, <<"x", "signp">>, "extern", "lgamma_r", <<"x", "signp">>, <<>>) }

LibmLongDoubleShims ==
  { Shim("_NumericsShims.h", "libm_cosl", "cos", "long double", <<X87>>, <<"x">>, "builtin", "__builtin_cosl", <<"x">>, <<>>),
    Shim("_NumericsShims.h", "libm_sinl", "sin", "long double", <<X87>>, <<"x">>, "builtin", "__builtin_sinl", <<"x">>, <<>>),
    Shim("_NumericsShims.h", "libm_tanl", "tan", "long double", <<X87>>, <<"x">>, "builtin", "__builtin_tanl", <<"x">>, <<>>),
    Shim("_NumericsShims.h", "libm_acosl", "acos", "long double", <<X87>>, <<"x">>, "builtin", "__builtin_acosl", <<"x">>, <<>>),
    Shim("_NumericsShims.h", "libm_asinl", "asin", "long double", <<X87>>, <<"x">>, "builtin", "__builtin_asinl", <<"x">>, <<>>),
    Shim("_NumericsShims.h", "libm_atanl", "atan", "long double", <<X87>>, <<"x">>, "builtin", "__builtin_atanl", <<"x">>, <<>>),
    Shim("_NumericsShims.h", "libm_coshl", "cosh", "long double", <<X87>>, <<"x">>, "builtin", "__builtin_coshl", <<"x">>, <<>>),
    Shim("_NumericsShims.h", "libm_sinhl", "sinh", "long double", <<X87>>, <<"x">>, "builtin", "__builtin_sinhl", <<"x">>, <<>>),
    Shim("_NumericsShims.h", "libm_tanhl", "tanh", "long double", <<X87>>, <<"x">>, "builtin", "__builtin_tanhl", <<"x">>, <<>>),
    Shim("_NumericsShims.h", "libm_acoshl", "acosh", "long double", <<X87>>, <<"x">>, "builtin", "__builtin_acoshl", <<"x">>, <<>>),
    Shim("_NumericsShims.h", "libm_asinhl", "asinh", "long double", <<X87>>, <<"x">>, "builtin", "__builtin_asinhl", <<"x">>, <<>>),
    Shim("_NumericsShims.h", "libm_atanhl", "atanh", "long double", <<X87>>, <<"x">>, "builtin", "__builtin_atanhl", <<"x">>, <<>>),
    Shim("_NumericsShims.h", "libm_expl", "exp", "long double", <<X87>>, <<"x">>, "builtin", "__builtin_expl", <<"x">>, <<>>),
    Shim("_NumericsShims.h", "libm_expm1l", "expm1", "long double", <<X87>>, <<"x">>, "builtin", "__builtin_expm1l", <<"x">>, <<>>),
    Shim("_NumericsShims.h", "libm_logl", "log", "long double", <<X87>>, <<"x">>, "builtin", "__builtin_logl", <<"x">>, <<>>),
    Shim("_NumericsShims.h", "libm_log1pl", "log1p", "long double", <<X87>>, <<"x">>, "builtin", "__builtin_log1pl", <<"x">>, <<>>),
    Shim("_NumericsShims.h", "libm_powl", "pow", "long double", <<X87>>, <<"x", "y">>, "builtin", "__builtin_powl", <<"x", "y">>, <<>>),
    Shim("_NumericsShims.h", "libm_cbrtl", "cbrt", "long double", <<X87>>, <<"x">>, "builtin", "__builtin_cbrtl", <<"x">>, <<>>),
    Shim("_NumericsShims.h", "libm_atan2l", "atan2", "long double", <<X87>>, <<"y", "x">>, "builtin", "__builtin_atan2l", <<"y", "x">>, <<>>),
    Shim("_NumericsShims.h", "libm_erfl", "erf", "long double", <<X87>>, <<"x">>, "builtin", "__builtin_erfl", <<"x">>, <<>>),
    Shim("_NumericsShims.h", "libm_erfcl", "erfc", "long double", <<X87>>, <<"x">>, "builtin", "__builtin_erfcl", <<"x">>, <<>>),
    Shim("_NumericsShims.h", "libm_exp2l", "exp2", "long double", <<X87>>, <<"x">>, "builtin", "__builtin_exp2l", <<"x">>, <<>>),
    Shim("_NumericsShims.h", "libm_hypotl", "hypot", "long double", <<X87>>, <<"x", "y">>, "builtin", "__builtin_hypotl", <<"x", "y">>, <<>>),
    Shim("_NumericsShims.h", "libm_tgammal", "tgamma", "long double", <<X87>>, <<"x">>, "builtin", "__builtin_tgammal", <<"x">>, <<>>),
    Shim("_NumericsShims.h", "libm_log2l", "log2", "long double", <<X87>>, <<"x">>, "builtin", "__builtin_log2l", <<"x">>, <<>>),
    Shim("_NumericsShims.h", "libm_log10l", "log10", "long double", <<X87>>, <<"x">>, "builtin", "__builtin_log10l", <<"x">>, <<>>),
    Shim("_NumericsShims.h", "libm_lgammal", "lgamma", "long double", <<X87>>, <<"x", "signp">>, "extern", "lgammal_r", <<"x", "signp">>, <<>>) }
RealShims ==
  SwiftFloatShims \cup SwiftDoubleShims \cup SwiftLongDoubleShims
    \cup LibmFloatShims \cup LibmDoubleShims \cup LibmLongDoubleShims

\* Exposed with every #if taken: each body is kept on each target.
ExposedUnguarded(s, tgt) == TRUE

\* The body of a function that the preprocessor keeps on a target.
Exposed(s, tgt) == AllHold(s.guard, tgt)

\* Whether a declaration of the callee is in scope at the call: a builtin
\* needs none, an extern routine has the one written in the body.
DeclInScope(s, tgt) == s.via = "builtin" \/ AllHold(s.decl, tgt)

---------------------------------------------------------------------------
(* The mul-add inlines *)

MulAddShim(hdr, name, prec, guard, params, expr, contract) ==
  [hdr |-> hdr, name |-> name, op |-> "muladd", prec |-> prec,
   guard |-> guard, params |-> params, expr |-> expr, contract |-> contract]

MulAddShims ==
  { MulAddShim("_NumericsShims.h", "_numerics_muladdf", "float", <<>>, <<"a", "b", "c">>, "a*b + c", "FP_CONTRACT ON"),
    MulAddShim("_NumericsShims.h", "_numerics_muladd", "double", <<>>, <<"a", "b", "c">>, "a*b + c", "FP_CONTRACT ON") }

---------------------------------------------------------------------------
(* The complex shims *)

\* struct: the aggregate taken and returned; params: the parameters in
\* order; callee: the routine; cargs: per argument of the call the
\* constructor and the two fields it is built from, as <<param, field>>;
\* re, im: the accessors that fill the returned aggregate's first (real)
\* and second (imag) field.
CShim(struct, name, op, prec, params, callee, cargs, re, im) ==
  [struct |-> struct, name |-> name, op |-> op, prec |-> prec,
   params |-> params, callee |-> callee, cargs |-> cargs, re |-> re, im |-> im]

CCDShims ==
  { CShim("_CCD", "_cexp", "exp", "double", <<"z">>, "cexp", <<<<"CMPLX", <<"z", "real">>, <<"z", "imag">>>>>>, "creal", "cimag"),
    CShim("_CCD", "_clog", "log", "double", <<"z">>, "clog", <<<<"CMPLX", <<"z", "real">>, <<"z", "imag">>>>>>, "creal", "cimag"),
    CShim("_CCD", "_cpow", "pow", "double", <<"z", "w">>, "cpow", <<<<"CMPLX", <<"z", "real">>, <<"z", "imag">>>>, <<"CMPLX", <<"w", "real">>, <<"w", "imag">>>>>>, "creal", "cimag"),
    CShim("_CCD", "_csqrt", "sqrt", "double", <<"z">>, "csqrt", <<<<"CMPLX", <<"z", "real">>, <<"z", "imag">>>>>>, "creal", "cimag"),
    CShim("_CCD", "_csin", "sin", "double", <<"z">>, "csin", <<<<"CMPLX", <<"z", "real">>, <<"z", "imag">>>>>>, "creal", "cimag"),
    CShim("_CCD", "_ccos", "cos", "double", <<"z">>, "ccos", <<<<"CMPLX", <<"z", "real">>, <<"z", "imag">>>>>>, "creal", "cimag"),
    CShim("_CCD", "_ctan", "tan", "double", <<"z">>, "ctan", <<<<"CMPLX", <<"z", "real">>, <<"z", "imag">>>>>>, "creal", "cimag"),
    CShim("_CCD", "_casin", "asin", "double", <<"z">>, "casin", <<<<"CMPLX", <<"z", "real">>, <<"z", "imag">>>>>>, "creal", "cimag"),
    CShim("_CCD", "_cacos", "acos", "double", <<"z">>, "cacos", <<<<"CMPLX", <<"z", "real">>, <<"z", "imag">>>>>>, "creal", "cimag"),
    CShim("_CCD", "_catan", "atan", "double", <<"z">>, "catan", <<<<"CMPLX", <<"z", "real">>, <<"z", "imag">>>>>>, "creal", "cimag"),
    CShim("_CCD", "_csinh", "sinh", "double", <<"z">>, "csinh", <<<<"CMPLX", <<"z", "real">>, <<"z", "imag">>>>>>, "creal", "cimag"),
    CShim("_CCD", "_ccosh", "cosh", "double", <<"z">>, "ccosh", <<<<"CMPLX", <<"z", "real">>, <<"z", "imag">>>>>>, "creal", "cimag"),
    CShim("_CCD", "_ctanh", "tanh", "double", <<"z">>, "ctanh", <<<<"CMPLX", <<"z", "real">>, <<"z", "imag">>>>>>, "creal", "cimag"),
    CShim("_CCD", "_casinh", "asinh", "double", <<"z">>, "casinh", <<<<"CMPLX", <<"z", "real">>, <<"z", "imag">>>>>>, "creal", "cimag"),
    CShim("_CCD", "_cacosh", "acosh", "double", <<"z">>, "cacosh", <<<<"CMPLX", <<"z", "real">>, <<"z", "imag">>>>>>, "creal", "cimag"),
    CShim("_CCD", "_catanh", "atanh", "double", <<"z">>, "catanh", <<<<"CMPLX", <<"z", "real">>, <<"z", "imag">>>>>>, "creal", "cimag") }

CCFShims ==
  { CShim("_CCF", "_cexpf", "exp", "float", <<"z">>, "cexpf", <<<<"CMPLXF", <<"z", "real">>, <<"z", "imag">>>>>>, "crealf", "cimagf"),
    CShim("_CCF", "_clogf", "log", "float", <<"z">>, "clogf", <<<<"CMPLXF", <<"z", "real">>, <<"z", "imag">>>>>>, "crealf", "cimagf"),
    CShim("_CCF", "_cpowf", "pow", "float", <<"z", "w">>, "cpowf", <<<<"CMPLXF", <<"z", "real">>, <<"z", "imag">>>>, <<"CMPLXF", <<"w", "real">>, <<"w", "imag">>>>>>, "crealf", "cimagf"),
    CShim("_CCF", "_csqrtf", "sqrt", "float", <<"z">>, "csqrtf", <<<<"CMPLXF", <<"z", "real">>, <<"z", "imag">>>>>>, "crealf", "cimagf"),
    CShim("_CCF", "_csinf", "sin", "float", <<"z">>, "csinf", <<<<"CMPLXF", <<"z", "real">>, <<"z", "imag">>>>>>, "crealf", "cimagf"),
    CShim("_CCF", "_ccosf", "cos", "float", <<"z">>, "ccosf", <<<<"CMPLXF", <<"z", "real">>, <<"z", "imag">>>>>>, "crealf", "cimagf"),
    CShim("_CCF", "_ctanf", "tan", "float", <<"z">>, "ctanf", <<<<"CMPLXF", <<"z", "real">>, <<"z", "imag">>>>>>, "crealf", "cimagf"),
    CShim("_CCF", "_casinf", "asin", "float", <<"z">>, "casinf", <<<<"CMPLXF", <<"z", "real">>, <<"z", "imag">>>>>>, "crealf", "cimagf"),
    CShim("_CCF", "_cacosf", "acos", "float", <<"z">>, "cacosf", <<<<"CMPLXF", <<"z", "real">>, <<"z", "imag">>>>>>, "crealf", "cimagf"),
    CShim("_CCF", "_catanf", "atan", "float", <<"z">>, "catanf", <<<<"CMPLXF", <<"z", "real">>, <<"z", "imag">>>>>>, "crealf", "cimagf"),
    CShim("_CCF", "_csinhf", "sinh", "float", <<"z">>, "csinhf", <<<<"CMPLXF", <<"z", "real">>, <<"z", "imag">>>>>>, "crealf", "cimagf"),
    CShim("_CCF", "_ccoshf", "cosh", "float", <<"z">>, "ccoshf", <<<<"CMPLXF", <<"z", "real">>, <<"z", "imag">>>>>>, "crealf", "cimagf"),
    CShim("_CCF", "_ctanhf", "tanh", "float", <<"z">>, "ctanhf", <<<<"CMPLXF", <<"z", "real">>, <<"z", "imag">>>>>>, "crealf", "cimagf"),
    CShim("_CCF", "_casinhf", "asinh", "float", <<"z">>, "casinhf", <<<<"CMPLXF", <<"z", "real">>, <<"z", "imag">>>>>>, "crealf", "cimagf"),
    CShim("_CCF", "_cacoshf", "acosh", "float", <<"z">>, "cacoshf", <<<<"CMPLXF", <<"z", "real">>, <<"z", "imag">>>>>>, "crealf", "cimagf"),
    CShim("_CCF", "_catanhf", "atanh", "float", <<"z">>, "catanhf", <<<<"CMPLXF", <<"z", "real">>, <<"z", "imag">>>>>>, "crealf", "cimagf") }

ComplexShims == CCDShims \cup CCFShims

---------------------------------------------------------------------------
(* Values *)

\* A floating-point value is either a literal or the result of a platform
\* routine applied to values.
Lit(v) == [k |-> "lit", f |-> v, x |-> <<>>]

App(f, xs) == [k |-> "app", f |-> f, x |-> xs]

\* The literals calls are made with: a NaN, a zero, an ordinary value, a
\* negative non-integer, and a large positive and negative integer.
InputLits == {"NaN", "0.0", "2.5", "-0.5", "1e5", "-1e5"}

Inputs == {Lit(v) : v \in InputLits}

SpecialLits == {"NaN", "+Inf", "-Inf", "0.0"}

\* The parts complex calls are made with.
ComplexParts == {Lit("0.0"), Lit("2.5"), Lit("-0.5")}

\* The integer-valued operands of the mul-add calls: a small range and one
\* value whose square needs more than 24 significand bits.
MaxSmall == 4

MulAddInputs == (-MaxSmall..MaxSmall) \cup {4097}

---------------------------------------------------------------------------
(* The platform math library *)

Precisions == {"float", "double", "long double"}

Suffix(prec) ==
  CASE prec = "float"       -> "f"
    [] prec = "double"      -> ""
    [] prec = "long double" -> "l"

\* The operations of the real headers; tgamma is the gamma function.
ListedOps ==
  {"cos", "sin", "tan", "acos", "asin", "atan", "cosh", "sinh", "tanh",
   "acosh", "asinh", "atanh", "exp", "expm1", "exp2", "log", "log2", "log10",
   "log1p", "pow", "atan2", "erf", "erfc", "cbrt", "hypot", "gamma", "lgamma"}

AllOps == ListedOps \cup {"exp10"}

Canon(op) == IF op = "tgamma" THEN "gamma" ELSE op

\* The name under which a target's C library and compiler offer an operation
\* in a precision: the compiler builtin of the ISO C function, and by their
\* own names the non-standard routines (Apple's __exp10, the reentrant
\* lgamma_r family, Windows' _hypotf).
PlatformSymbol(op, prec, tgt) ==
  CASE op = "exp10"  -> "__exp10" \o Suffix(prec)
    [] op = "lgamma" -> "lgamma" \o Suffix(prec) \o "_r"
    [] op = "gamma"  -> "__builtin_tgamma" \o Suffix(prec)
    [] op = "hypot" /\ prec = "float" /\ tgt.os = "Windows" -> "_hypotf"
    [] OTHER         -> "__builtin_" \o op \o Suffix(prec)

Routines ==
  { [sym |-> PlatformSymbol(op, prec, tgt), op |-> op, prec |-> prec] :
      op \in AllOps, prec \in Precisions, tgt \in Targets }

RoutineOf(sym) == CHOOSE r \in Routines : r.sym = sym

\* The routines a target's platform provides: those of the names above,
\* with __exp10f and __exp10 on Apple only and the lgamma_r family off
\* Windows only.
PlatformProvides(sym, tgt) ==
  \E r \in Routines :
    /\ r.sym = sym
    /\ sym = PlatformSymbol(r.op, r.prec, tgt)
    /\ r.op = "exp10" => tgt.os = "Apple" /\ r.prec # "long double"
    /\ r.op = "lgamma" => tgt.os # "Windows"

\* The results C Annex F fixes for one-argument routines at the inputs used;
\* "none" where the result is an ordinary value.
SpecialResult(op, v) ==
  CASE v = "NaN" -> "NaN"
    [] op \in {"log", "log2", "log10"} /\ v = "0.0" -> "-Inf"
    [] op \in {"log", "log2", "log10"} /\ v \in {"-0.5", "-1e5"} -> "NaN"
    [] op = "log1p" /\ v = "-1e5" -> "NaN"
    [] op \in {"exp", "exp2", "exp10", "expm1", "cosh", "sinh", "gamma"} /\ v = "1e5" -> "+Inf"
    [] op \in {"exp", "exp2", "exp10"} /\ v = "-1e5" -> "0.0"
    [] op = "cosh" /\ v = "-1e5" -> "+Inf"
    [] op = "sinh" /\ v = "-1e5" -> "-Inf"
    [] op \in {"acos", "asin", "atanh"} /\ v \in {"2.5", "1e5", "-1e5"} -> "NaN"
    [] op = "acosh" /\ v \in {"0.0", "-0.5", "-1e5"} -> "NaN"
    [] op = "lgamma" /\ v \in {"0.0", "-1e5"} -> "+Inf"
    [] op = "gamma" /\ v = "0.0" -> "+Inf"
    [] op = "gamma" /\ v = "-1e5" -> "NaN"
    [] OTHER -> "none"

\* The value a platform routine returns.
Libm(sym, xs) ==
  LET op == RoutineOf(sym).op
      lits == \A i \in 1..Len(xs) : xs[i].k = "lit"
      special ==
        IF ~lits THEN "none"
        ELSE IF Len(xs) = 1 THEN SpecialResult(op, xs[1].f)
        ELSE IF op = "pow" /\ xs[2].f = "0.0" THEN "1.0"
        ELSE IF \E i \in 1..Len(xs) : xs[i].f = "NaN" THEN "NaN"
        ELSE "none"
  IN  IF special = "none" THEN App(sym, xs) ELSE Lit(special)

\* The sign of the gamma function that the lgamma_r family stores.
LgammaSign(xs) == IF xs[1] = Lit("-0.5") THEN -1 ELSE 1

\* errno after a routine has run: set on a domain error (a NaN from
\* arguments that hold none) and on a range error (an infinity or a zero
\* from finite arguments) where the platform reports errors through errno,
\* as the C libraries of Linux and Windows do and Apple's does not.
ErrnoAfter(old, sym, xs, tgt) ==
  LET r == Libm(sym, xs)
      nanIn == \E i \in 1..Len(xs) : xs[i] = Lit("NaN")
  IN  IF tgt.os = "Apple" \/ r.k # "lit" \/ nanIn \/ r.f = "1.0" THEN old
      ELSE IF r.f = "NaN" THEN "EDOM"
      ELSE "ERANGE"

\* A native complex value, and the accessors of its parts.
CMPLX(re, im) == [re |-> re, im |-> im]

Accessor(acc, cz) ==
  CASE acc \in {"creal", "crealf"} -> cz.re
    [] acc \in {"cimag", "cimagf"} -> cz.im

\* The value a platform complex routine returns: its parts are terms over
\* the routine and its arguments, except clog(0 + 0i) = -Inf + 0i (C Annex G).
CLibm(sym, zs) ==
  IF sym \in {"clog", "clogf"} /\ zs[1] = CMPLX(Lit("0.0"), Lit("0.0"))
  THEN CMPLX(Lit("-Inf"), Lit("0.0"))
  ELSE CMPLX([k |-> "re", f |-> sym, x |-> zs], [k |-> "im", f |-> sym, x |-> zs])

\* Rounding of an integer to a binary format with p significand bits, to
\* nearest, ties to even.  Every integer of the model's range fits in the 53
\* bits of double.
RECURSIVE Ulp(_, _)
Ulp(n, limit) == IF n < limit THEN 1 ELSE 2 * Ulp(n \div 2, limit)

Round(n, p) ==
  IF p > 30 THEN n
  ELSE LET a == IF n < 0 THEN -n ELSE n
           u == Ulp(a, 2^p)
           lo == (a \div u) * u
           rem == a - lo
           up == IF 2 * rem > u THEN TRUE
                 ELSE IF 2 * rem < u THEN FALSE
                 ELSE (lo \div u) % 2 = 1
           m == IF up THEN lo + u ELSE lo
       IN  IF n < 0 THEN -m ELSE m

Significand(prec) ==
  CASE prec = "float"  -> 24
    [] prec = "double" -> 53

---------------------------------------------------------------------------
(* The bodies of the forwarding functions *)

NumThreads == 2

Threads == 1..NumThreads

\* The rows of a function, and the one the preprocessor keeps on a target.
BodyOf(name, tgt) ==
  CHOOSE s \in RealShims : s.name = name /\ Exposed(s, tgt)

IsPointer(a) == a \in {"&_", "signp"}

\* The floating-point parameters of a function, and the floating-point
\* arguments of its call.
ValueParams(s) == SelectSeq(s.params, LAMBDA a : ~IsPointer(a))

ValueArgs(s) == SelectSeq(s.args, LAMBDA a : ~IsPointer(a))

ParamIndex(s, a) == CHOOSE i \in 1..Len(s.params) : s.params[i] = a

\* The same call with its first two floating-point arguments exchanged.
PassedSwapped(s, vals) ==
  LET as == ValueArgs(s)
      n == Len(as)
  IN  [i \in 1..n |-> vals[ParamIndex(s, as[IF n = 2 THEN 3 - i ELSE i])]]

\* The values passed to the callee, in the order of the call, given the
\* values the function was called with, in the order of its parameters.
Passed(s, vals) ==
  LET as == ValueArgs(s)
  IN  [i \in 1..Len(as) |-> vals[ParamIndex(s, as[i])]]

\* SignPointer of bodies that pass the address of a local whatever the
\* name of the argument.
SignPointerDiscarding(s) ==
  IF \E i \in 1..Len(s.args) : IsPointer(s.args[i]) THEN "local" ELSE "none"

\* Where the int * argument of the call points: at the local "_" of the
\* function, at the int of the caller (signp), or there is none.
SignPointer(s) ==
  IF \E i \in 1..Len(s.args) : s.args[i] = "&_" THEN "local"
  ELSE IF \E i \in 1..Len(s.args) : s.args[i] = "signp" THEN "caller"
  ELSE "none"

\* A single int shared by every call, as the non-reentrant lgamma's signgam.
SignCellShared(t) == 1

\* The caller's int that signp points to: each call has its own.
SignCell(t) == t

\* What a call through an undeclared name can return: C99 has no implicit
\* declarations; a compiler that accepts the call takes the callee to
\* return int, so the caller converts an unrelated int to the result type.
ImplicitIntResults == {Lit("0.0"), Lit("1.0")}

\* The values a real function can return to its caller, with the signs its
\* int * argument can receive: <<value, sign>>.
RealOutcomes(s, vals, tgt) ==
  IF DeclInScope(s, tgt)
  THEN { <<Libm(s.callee, Passed(s, vals)),
           IF SignPointer(s) = "none" THEN 0 ELSE LgammaSign(Passed(s, vals))>> }
  ELSE ImplicitIntResults \X {-1, 1}

\* The native complex arguments a complex function builds from its
\* parameters.
CPassed(s, zs) ==
  [i \in 1..Len(s.cargs) |->
     LET c == s.cargs[i]
         p1 == CHOOSE j \in 1..Len(s.params) : s.params[j] = c[2][1]
         p2 == CHOOSE j \in 1..Len(s.params) : s.params[j] = c[3][1]
     IN  CMPLX(zs[p1][c[2][2]], zs[p2][c[3][2]])]

\* CResult with the two accessors exchanged.
CResultSwapped(s, cz) == [real |-> Accessor(s.im, cz), imag |-> Accessor(s.re, cz)]

\* The aggregate a complex function returns for the native result cz.
CResult(s, cz) == [real |-> Accessor(s.re, cz), imag |-> Accessor(s.im, cz)]

\* a * (b + c) in place of a*b + c.
MulThenAddGrouped(a, b, c, prec) ==
  Round(a * Round(b + c, Significand(prec)), Significand(prec))

\* a*b + c as two operations, each rounded, and as one fused operation.
MulThenAdd(a, b, c, prec) ==
  Round(Round(a * b, Significand(prec)) + c, Significand(prec))

Fused(a, b, c, prec) == Round(a * b + c, Significand(prec))

---------------------------------------------------------------------------
(* Calls *)

NoFrame == [kind |-> "none"]

NoResult == [kind |-> "none"]

Init ==
  /\ target \in Targets
  /\ pc = [t \in Threads |-> "idle"]
  /\ frame = [t \in Threads |-> NoFrame]
  /\ result = [t \in Threads |-> NoResult]
  /\ callerSign = [t \in Threads |-> 0]
  /\ errno = [t \in Threads |-> "0"]

CanCall(t) == pc[t] = "idle"

\* The values errno can hold when a call is made.
EntryErrnos == {"0", "EDOM"}

\* The caller makes a call with errno e.
Enter(t, e) ==
  /\ pc' = [pc EXCEPT ![t] = "entered"]
  /\ errno' = [errno EXCEPT ![t] = e]
  /\ UNCHANGED <<target, result>>

\* A caller enters a real function that its target exposes.  The local "_"
\* of the swift_lgamma functions starts with no value (0), and so does the
\* int the caller of a libm_lgamma function passes the address of.
CallReal(t, shims, inputs) ==
  /\ CanCall(t)
  /\ \E s \in shims, e \in EntryErrnos :
       /\ Exposed(s, target)
       /\ Enter(t, e)
       /\ \E vals \in [1..Len(ValueParams(s)) -> inputs] :
            frame' = [frame EXCEPT ![t] =
                        [kind |-> "real", name |-> s.name, args |-> vals,
                         local |-> 0, ret |-> Lit("none"), errno0 |-> e]]
       /\ callerSign' = [callerSign EXCEPT ![SignCell(t)] =
                           IF SignPointer(s) = "caller" THEN 0 ELSE @]

\* The platform routine runs: it computes the value, stores the sign of
\* gamma through its int * argument, and may set errno.
RunRoutine(t) ==
  /\ pc[t] = "entered"
  /\ frame[t].kind = "real"
  /\ LET s == BodyOf(frame[t].name, target)
         xs == Passed(s, frame[t].args)
     IN  /\ \E o \in RealOutcomes(s, frame[t].args, target) :
              /\ frame' = [frame EXCEPT ![t].ret = o[1],
                                        ![t].local = IF SignPointer(s) = "local" THEN o[2] ELSE @]
              /\ callerSign' = [callerSign EXCEPT ![SignCell(t)] =
                                  IF SignPointer(s) = "caller" THEN o[2] ELSE @]
         /\ errno' = [errno EXCEPT ![t] =
                        IF DeclInScope(s, target)
                        THEN ErrnoAfter(@, s.callee, xs, target) ELSE @]
  /\ pc' = [pc EXCEPT ![t] = "computed"]
  /\ UNCHANGED <<target, result>>

\* A caller enters a complex function.
CallComplex(t, shims, parts) ==
  /\ CanCall(t)
  /\ \E s \in shims :
       \E zs \in [1..Len(s.params) -> [real : parts, imag : parts]] :
         frame' = [frame EXCEPT ![t] =
                     [kind |-> "complex", name |-> s.name, args |-> zs,
                      ret |-> CMPLX(Lit("none"), Lit("none")), errno0 |-> "0"]]
  /\ Enter(t, "0")
  /\ UNCHANGED callerSign

\* The platform complex routine runs on the native values.
RunComplexRoutine(t) ==
  /\ pc[t] = "entered"
  /\ frame[t].kind = "complex"
  /\ LET s == CHOOSE c \in ComplexShims : c.name = frame[t].name
     IN  frame' = [frame EXCEPT ![t].ret = CLibm(s.callee, CPassed(s, frame[t].args))]
  /\ pc' = [pc EXCEPT ![t] = "computed"]
  /\ UNCHANGED <<target, result, callerSign, errno>>

\* A caller enters a mul-add inline.
CallMulAdd(t, inputs) ==
  /\ CanCall(t)
  /\ \E s \in MulAddShims :
       /\ Exposed(s, target)
       /\ \E abc \in [1..Len(s.params) -> inputs] :
            frame' = [frame EXCEPT ![t] =
                        [kind |-> "muladd", name |-> s.name, args |-> abc,
                         ret |-> 0, fused |-> FALSE, errno0 |-> "0"]]
  /\ Enter(t, "0")
  /\ UNCHANGED callerSign

\* a*b + c is evaluated; FP_CONTRACT ON lets the compiler fuse it or not.
EvalMulAdd(t) ==
  /\ pc[t] = "entered"
  /\ frame[t].kind = "muladd"
  /\ LET s == CHOOSE m \in MulAddShims : m.name = frame[t].name
         a == frame[t].args[1]
         b == frame[t].args[2]
         c == frame[t].args[3]
     IN  \E fused \in BOOLEAN :
           frame' = [frame EXCEPT ![t].fused = fused,
                                  ![t].ret = IF fused THEN Fused(a, b, c, s.prec)
                                             ELSE MulThenAdd(a, b, c, s.prec)]
  /\ pc' = [pc EXCEPT ![t] = "computed"]
  /\ UNCHANGED <<target, result, callerSign, errno>>

\* What the caller holds once the function has returned: the value, and
\* the sign if the function stored it in the caller's int.  The frame, with
\* the local "_", is gone.
Returned(t) ==
  LET fr == frame[t]
  IN  CASE fr.kind = "real" ->
             [kind |-> "real", name |-> fr.name, args |-> fr.args, value |-> fr.ret,
              errno0 |-> fr.errno0,
              sign |-> IF SignPointer(BodyOf(fr.name, target)) = "caller"
                       THEN callerSign[SignCell(t)] ELSE 0]
        [] fr.kind = "complex" ->
             [kind |-> "complex", name |-> fr.name, args |-> fr.args,
              value |-> CResult(CHOOSE c \in ComplexShims : c.name = fr.name, fr.ret)]
        [] fr.kind = "muladd" ->
             [kind |-> "muladd", name |-> fr.name, args |-> fr.args,
              value |-> fr.ret, fused |-> fr.fused]

Return(t) ==
  /\ pc[t] = "computed"
  /\ result' = [result EXCEPT ![t] = Returned(t)]
  /\ frame' = [frame EXCEPT ![t] = NoFrame]
  /\ pc' = [pc EXCEPT ![t] = "returned"]
  /\ UNCHANGED <<target, callerSign, errno>>

\* The caller has used the result and is ready for its next call.
Consume(t) ==
  /\ pc[t] = "returned"
  /\ pc' = [pc EXCEPT ![t] = "idle"]
  /\ result' = [result EXCEPT ![t] = NoResult]
  /\ callerSign' = [callerSign EXCEPT ![SignCell(t)] = 0]
  /\ errno' = [errno EXCEPT ![t] = "0"]
  /\ UNCHANGED <<target, frame>>

---------------------------------------------------------------------------
(* Specifications *)

\* One caller, every function, every input.
Next ==
  \/ CallReal(1, RealShims, Inputs)
  \/ RunRoutine(1)
  \/ CallComplex(1, ComplexShims, ComplexParts)
  \/ RunComplexRoutine(1)
  \/ CallMulAdd(1, MulAddInputs)
  \/ EvalMulAdd(1)
  \/ Return(1)
  \/ Consume(1)

Spec == Init /\ [][Next]_vars

\* Several callers at once, on the float log-gamma functions (the log-gamma
\* functions are the only ones that store through a pointer), one complex
\* function and the mul-adds.
LgammaShims == {s \in RealShims : s.op = "lgamma"}

ConcShims == {s \in LgammaShims : s.prec = "float"}

ConcInputs == {Lit("2.5"), Lit("-0.5")}

ConcComplexShims == {c \in ComplexShims : c.name = "_cexp"}

NextConc ==
  \E t \in Threads :
    \/ CallReal(t, ConcShims, ConcInputs)
    \/ RunRoutine(t)
    \/ CallComplex(t, ConcComplexShims, {Lit("2.5")})
    \/ RunComplexRoutine(t)
    \/ CallMulAdd(t, {2})
    \/ EvalMulAdd(t)
    \/ Return(t)
    \/ Consume(t)

SpecConc == Init /\ [][NextConc]_vars

---------------------------------------------------------------------------
(* Properties *)

ReturnedCalls == {t \in Threads : pc[t] = "returned"}

RealReturns == {t \in ReturnedCalls : result[t].kind = "real"}

\* The platform routine of the operation and precision of a real function.
RoutineFor(s, tgt) == PlatformSymbol(Canon(s.op), s.prec, tgt)

\* The finite literals, and the calls whose platform result is an ordinary
\* value.
Finite(xs) == \A i \in 1..Len(xs) : xs[i].k = "lit" /\ xs[i].f # "NaN"

InDomain(sym, xs) == Finite(xs) /\ Libm(sym, xs).k = "app"

\* C1: every real forwarding function of both headers returns, for finite
\* in-domain inputs, exactly the value of the platform routine of the same
\* operation and precision on the same inputs.
C1_ForwardsExactly ==
  \A t \in RealReturns :
    LET s == BodyOf(result[t].name, target)
        sym == RoutineFor(s, target)
    IN  InDomain(sym, result[t].args) =>
          result[t].value = Libm(sym, result[t].args)

HasX87(tgt) == tgt.os # "Windows" /\ tgt.arch \in {"i386", "x86_64"}

Headers == {"NumericsShims.h", "_NumericsShims.h"}

LongDoubleShims(hdr) == {s \in RealShims : s.hdr = hdr /\ s.prec = "long double"}

\* Per target and header, whether the long double functions are exposed
\* all ("all"), not at all ("none") or in part ("some").
LongDoubleExposure ==
  { <<tgt, h,
      IF \A s \in LongDoubleShims(h) : Exposed(s, tgt) THEN "all"
      ELSE IF \A s \in LongDoubleShims(h) : ~Exposed(s, tgt) THEN "none"
      ELSE "some">> : tgt \in Targets, h \in Headers }

\* C3: on every target the long double functions of each header are exposed
\* all together or not at all: all of them where long double is the x87
\* format, none of them on Windows or on another architecture; no call of a
\* long double function is in progress on a target without the format.
C3_LongDoubleAllOrNothing ==
  /\ \A h \in Headers :
       /\ LongDoubleShims(h) # {}
       /\ HasX87(target) => <<target, h, "all">> \in LongDoubleExposure
       /\ ~HasX87(target) => <<target, h, "none">> \in LongDoubleExposure
  /\ \A t \in Threads :
       (frame[t].kind = "real" /\ BodyOf(frame[t].name, target).prec = "long double")
         => HasX87(target)

C3_Witness ==
  /\ target = [os |-> "Windows", arch |-> "x86_64"]
  /\ \E t \in RealReturns : result[t].name = "libm_hypotf"

\* The precisions a target exposes, and the exposed bodies of an operation
\* in a precision in a header, with their number on every target.
ExposedPrecisions(tgt) ==
  {"float", "double"} \cup (IF HasX87(tgt) THEN {"long double"} ELSE {})

Bodies(hdr, op, prec, tgt) ==
  {s \in RealShims : s.hdr = hdr /\ Canon(s.op) = op /\ s.prec = prec /\ Exposed(s, tgt)}

BodyCounts ==
  { <<tgt, h, prec, op, Cardinality(Bodies(h, op, prec, tgt))>> :
      tgt \in Targets, h \in Headers, prec \in Precisions, op \in AllOps }

BodyCount(tgt, h, prec, op) ==
  CHOOSE n \in 0..2 : <<tgt, h, prec, op, n>> \in BodyCounts

\* The platform offers the base-10 exponential on Apple, in float and double.
PlatformHasExp10(prec, tgt) == tgt.os = "Apple" /\ prec \in {"float", "double"}

\* C4 as claimed: on every target each header has exactly one function for
\* each listed operation in each exposed precision, and for exp10 where the
\* platform provides it.
OnePerOperation(tgt) ==
  \A h \in Headers, prec \in ExposedPrecisions(tgt) :
    /\ \A op \in ListedOps : BodyCount(tgt, h, prec, op) = 1
    /\ PlatformHasExp10(prec, tgt) => BodyCount(tgt, h, prec, "exp10") = 1

OnePerOperationOn == {<<tgt, OnePerOperation(tgt)>> : tgt \in Targets}

C4_ExactlyOnePerOperation == <<target, TRUE>> \in OnePerOperationOn

\* C4 as amended: no function is defined twice; _NumericsShims.h has exactly
\* one function for each listed operation in each exposed precision except
\* log-gamma, which it has off Windows only, and has exp10 on Apple in float
\* and double only; NumericsShims.h has the same functions except that it
\* has no cbrt and no exp10 at all.
OnePerOperationWhereGated(tgt) ==
  \A h \in Headers, prec \in Precisions, op \in AllOps :
    LET expected ==
          /\ prec \in ExposedPrecisions(tgt)
          /\ op = "lgamma" => tgt.os # "Windows"
          /\ op = "exp10" => h = "_NumericsShims.h" /\ PlatformHasExp10(prec, tgt)
          /\ op = "cbrt" => h = "_NumericsShims.h"
    IN  BodyCount(tgt, h, prec, op) = IF expected THEN 1 ELSE 0

OnePerOperationWhereGatedOn ==
  {<<tgt, OnePerOperationWhereGated(tgt)>> : tgt \in Targets}

C4_OnePerOperationWhereGated == <<target, TRUE>> \in OnePerOperationWhereGatedOn

C4_Witness ==
  /\ target.os = "Windows"
  /\ BodyCount(target, "_NumericsShims.h", "double", "lgamma") = 0
  /\ \E t \in RealReturns : result[t].name = "swift_hypotf"

ComplexReturns == {t \in ReturnedCalls : result[t].kind = "complex"}

MulAddReturns == {t \in ReturnedCalls : result[t].kind = "muladd"}

ComplexBody(name) == CHOOSE c \in ComplexShims : c.name = name

MulAddBody(name) == CHOOSE m \in MulAddShims : m.name = name

\* C5: with any number of callers interleaved, every call returns what it
\* can return when it runs alone: a real function one of its own outcomes,
\* with the sign the routine stored for this call and the errno this call
\* left; a complex function and a mul-add the value of their own arguments.
C5_SameAsAlone ==
  /\ \A s \in LgammaShims :
       /\ s.callee \in {"lgammaf_r", "lgamma_r", "lgammal_r"}
       /\ SignPointer(s) \in {"local", "caller"}
  /\ \A t \in ReturnedCalls :
         LET r == result[t]
         IN  CASE r.kind = "real" ->
                    LET s == BodyOf(r.name, target)
                    IN  /\ \E o \in RealOutcomes(s, r.args, target) :
                             /\ r.value = o[1]
                             /\ SignPointer(s) = "caller" => r.sign = o[2]
                        /\ errno[t] = IF DeclInScope(s, target)
                                      THEN ErrnoAfter(r.errno0, s.callee, Passed(s, r.args), target)
                                      ELSE r.errno0
               [] r.kind = "complex" ->
                    LET s == ComplexBody(r.name)
                    IN  r.value = CResult(s, CLibm(s.callee, CPassed(s, r.args)))
               [] r.kind = "muladd" ->
                    LET s == MulAddBody(r.name)
                    IN  r.value \in { Fused(r.args[1], r.args[2], r.args[3], s.prec),
                                      MulThenAdd(r.args[1], r.args[2], r.args[3], s.prec) }

C5_Witness ==
  /\ pc[1] = "returned" /\ result[1].kind = "real"
  /\ result[1].name = "libm_lgammaf" /\ result[1].sign = -1
  /\ pc[2] = "returned" /\ result[2].kind = "real"
  /\ result[2].name = "libm_lgammaf" /\ result[2].sign = 1

\* The platform complex routine of an operation in a precision.
CPlatformSymbol(op, prec) == "c" \o op \o (IF prec = "float" THEN "f" ELSE "")

ComplexOps ==
  {"exp", "log", "pow", "sqrt", "sin", "cos", "tan", "asin", "acos", "atan",
   "sinh", "cosh", "tanh", "asinh", "acosh", "atanh"}

\* Whether there is exactly one complex function per operation and precision.
OneComplexPerOperation ==
  {<<op, prec, Cardinality({c \in ComplexShims : c.op = op /\ c.prec = prec})>> :
     op \in ComplexOps, prec \in {"float", "double"}}

\* C6: each of the 16 complex operations exists once in double (_CCD) and
\* once in float (_CCF), and returns the aggregate whose real field is the
\* real part and whose imag field is the imaginary part of the platform
\* complex routine of that operation and precision, applied to the native
\* values real + i*imag of its arguments in the order it received them.
C6_ComplexForwards ==
  /\ \A op \in ComplexOps, prec \in {"float", "double"} :
       <<op, prec, 1>> \in OneComplexPerOperation
  /\ \A t \in ComplexReturns :
       LET s == ComplexBody(result[t].name)
           zs == result[t].args
           cz == CLibm(CPlatformSymbol(s.op, s.prec),
                       [i \in 1..Len(zs) |-> CMPLX(zs[i].real, zs[i].imag)])
       IN  /\ s.struct = (IF s.prec = "double" THEN "_CCD" ELSE "_CCF")
           /\ result[t].value = [real |-> cz.re, imag |-> cz.im]

C6_Witness ==
  \E t \in ComplexReturns :
    /\ result[t].name = "_cpowf"
    /\ result[t].args = <<[real |-> Lit("2.5"), imag |-> Lit("-0.5")],
                          [real |-> Lit("0.0"), imag |-> Lit("2.5")]>>
    /\ result[t].value.real.k = "re"

TwoArgOps == {"pow", "atan2", "hypot"}

\* C7: the two-argument functions are pow, atan2 and hypot in every
\* precision of both headers; atan2 takes (y, x) and the others (x, y), and
\* each returns the platform routine's value on its two arguments in the
\* positions it received them (_hypotf for float hypot on Windows).
C7_ArgumentOrder ==
  \A t \in RealReturns :
    LET s == BodyOf(result[t].name, target)
        xs == result[t].args
    IN  /\ Len(xs) = 2 <=> Canon(s.op) \in TwoArgOps
        /\ Len(xs) = 2 =>
             /\ ValueParams(s) = IF s.op = "atan2" THEN <<"y", "x">> ELSE <<"x", "y">>
             /\ result[t].value = Libm(RoutineFor(s, target), <<xs[1], xs[2]>>)

C7_Witness ==
  \E t \in RealReturns :
    /\ target.os = "Windows"
    /\ result[t].name = "libm_hypotf"
    /\ result[t].args = <<Lit("2.5"), Lit("-0.5")>>
    /\ result[t].value = App("_hypotf", <<Lit("2.5"), Lit("-0.5")>>)

\* What the exposed functions of a target refer to.
RefersOnlyToProvided(tgt) ==
  /\ \A s \in RealShims :
       Exposed(s, tgt) =>
         /\ PlatformProvides(s.callee, tgt)
         /\ s.callee \in {"__exp10f", "__exp10"} => tgt.os = "Apple"
         /\ s.callee = "_hypotf" => tgt.os = "Windows"
         /\ s.callee \in {"lgammaf_r", "lgamma_r", "lgammal_r"} => tgt.os # "Windows"
  /\ tgt.os # "Apple" => ~\E s \in RealShims : Exposed(s, tgt) /\ s.op = "exp10"

RefersOnlyToProvidedOn == {<<tgt, RefersOnlyToProvided(tgt)>> : tgt \in Targets}

\* C8: on every target the exposed functions refer only to routines the
\* platform provides: __exp10f and __exp10 on Apple only, with no exp10
\* function at all elsewhere, _hypotf on Windows only, the lgamma_r family
\* off Windows only; and a call in progress is a call of a provided routine.
C8_OnlyProvidedRoutines ==
  /\ <<target, TRUE>> \in RefersOnlyToProvidedOn
  /\ \A t \in Threads :
       frame[t].kind = "real" =>
         PlatformProvides(BodyOf(frame[t].name, target).callee, target)

C8_Witness ==
  \E t \in RealReturns :
    /\ target.os = "Apple"
    /\ result[t].name = "libm_exp10f"
    /\ result[t].value = App("__exp10f", <<Lit("2.5")>>)

\* The integers a binary format with p significand bits represents exactly.
RECURSIVE OddPart(_)
OddPart(n) == IF n = 0 THEN 0 ELSE IF n % 2 = 0 THEN OddPart(n \div 2) ELSE n

Representable(n, p) ==
  p > 30 \/ (LET m == OddPart(IF n < 0 THEN -n ELSE n) IN m < 2^p)

\* C9: the mul-add inlines exist in float and double only, on every target,
\* and return exactly a*b + c when a*b and a*b + c are representable in the
\* precision, whether evaluated in two operations or fused; so
\* muladd(2, 3, 4) = 10.
C9_MulAddExact ==
  /\ {s.prec : s \in {m \in MulAddShims : Exposed(m, target)}} = {"float", "double"}
  /\ \A t \in MulAddReturns :
       LET s == MulAddBody(result[t].name)
           p == Significand(s.prec)
           a == result[t].args[1]
           b == result[t].args[2]
           c == result[t].args[3]
       IN  (Representable(a * b, p) /\ Representable(a * b + c, p))
             => result[t].value = a * b + c

C9_Witness ==
  \E t \in MulAddReturns :
    /\ result[t].name = "_numerics_muladdf"
    /\ result[t].args = <<2, 3, 4>>
    /\ result[t].fused
    /\ result[t].value = 10

\* C10: when the platform routine returns a special value (a NaN, an
\* infinity, a zero) the function returns that value, and it leaves errno as
\* the routine left it; for real and complex functions alike.
C10_SpecialValuesPassThrough ==
  /\ \A t \in RealReturns :
       LET s == BodyOf(result[t].name, target)
           sym == RoutineFor(s, target)
           r == Libm(sym, result[t].args)
       IN  /\ (r.k = "lit" /\ r.f \in SpecialLits) => result[t].value = r
           /\ errno[t] = ErrnoAfter(result[t].errno0, sym, result[t].args, target)
  /\ \A t \in ComplexReturns :
       LET s == ComplexBody(result[t].name)
           zs == result[t].args
           cz == CLibm(CPlatformSymbol(s.op, s.prec),
                       [i \in 1..Len(zs) |-> CMPLX(zs[i].real, zs[i].imag)])
       IN  /\ cz.re.k = "lit" => result[t].value.real = cz.re
           /\ cz.im.k = "lit" => result[t].value.imag = cz.im

\* The function of the other real header for the same operation and
\* precision, where the target exposes one.
OtherHeader(hdr) == IF hdr = "NumericsShims.h" THEN "_NumericsShims.h" ELSE "NumericsShims.h"

Counterparts(s, tgt) == Bodies(OtherHeader(s.hdr), Canon(s.op), s.prec, tgt)

\* The positions, among the parameters, of the values a body passes on.
ArgPositions(s) ==
  LET as == ValueArgs(s)
  IN  [i \in 1..Len(as) |-> ParamIndex(s, as[i])]

\* Whether, on a target, paired functions call the same routine with the
\* same arguments, and the operations both headers have are exposed by both
\* or by neither, under the same conditions.
HeadersAgree(tgt) ==
  /\ \A s \in RealShims :
       Exposed(s, tgt) =>
         \A c \in Counterparts(s, tgt) :
           /\ c.callee = s.callee
           /\ ValueParams(c) = ValueParams(s)
           /\ ArgPositions(c) = ArgPositions(s)
  /\ \A s \in RealShims, c \in RealShims :
       (c.hdr = OtherHeader(s.hdr) /\ Canon(c.op) = Canon(s.op) /\ c.prec = s.prec) =>
         /\ Bodies(s.hdr, Canon(s.op), s.prec, tgt) # {}
              <=> Bodies(c.hdr, Canon(s.op), s.prec, tgt) # {}
         /\ {r.guard : r \in {q \in RealShims : q.hdr = s.hdr /\ q.op = s.op /\ q.prec = s.prec}}
              = {r.guard : r \in {q \in RealShims : q.hdr = c.hdr /\ q.op = c.op /\ q.prec = c.prec}}

HeadersAgreeOn == {<<tgt, HeadersAgree(tgt)>> : tgt \in Targets}

\* C12: on every target the swift_ and libm_ functions of one operation and
\* precision call the same routine with the same arguments, the two headers
\* gate the operations they share under the same conditions, and a call of
\* either function returns the value its counterpart returns for the same
\* arguments.
C12_HeadersAgree ==
  /\ <<target, TRUE>> \in HeadersAgreeOn
  /\ \A t \in RealReturns :
       LET s == BodyOf(result[t].name, target)
       IN  \A c \in Counterparts(s, target) :
             \E o \in RealOutcomes(c, result[t].args, target) : result[t].value = o[1]

=============================================================================
